---------------------------- MODULE Spec2Model ----------------------------
(***************************************************************************)
(* A model of zrpc: the client of one connection (Client, Call), and the   *)
(* server side of one connection (Server.serveCodec, handleRequest).       *)
(*                                                                         *)
(* ClientSpec is the client with its callers, its receive goroutine and    *)
(* the peer as environment; ClientLiveSpec adds the fairness of the Go     *)
(* scheduler.  ServerSpec is one server connection, defined further down.  *)
(***************************************************************************)
EXTENDS Integers, Sequences, FiniteSets, TLC

(***************************************************************************)
(* Bounds of the model.                                                    *)
(***************************************************************************)
MaxCalls == 2
    \* calls the callers create on the client
MaxCloses == 2
    \* calls of Client.Close
UserCap == 1
    \* capacity of the done channel the user hands to Go (Go wants >= 1)

(***************************************************************************)
(* Program constants.                                                      *)
(***************************************************************************)
FirstSeq == 1
DefaultDoneCap == 10
CallDoneCap == 1

CallIds == 1..MaxCalls
NoCall == 0
    \* a nil *Call
NoHolder == 0
    \* a free mutex
Receiver == MaxCalls + 1
    \* the receive goroutine, as a holder of mutexes
UserChan == 0
    \* the done channel supplied by the user; channel c is the one made for call c
ChanIds == {UserChan} \cup CallIds
SeqNums == FirstSeq..MaxCalls
    \* the sequence numbers a response header names

VARIABLES
    seq,        \* Client.seq
    pending,    \* Client.pending: seq -> call
    closing,    \* Client.closing
    shutdown,   \* Client.shutdown
    sending,    \* holder of Client.sending
    mu,         \* holder of Client.mu
    calls,      \* the Call objects and the position of the goroutine of each
    chans,      \* contents of the done channels
    recv,       \* the receive goroutine: position, header read, call taken, error
    conn,       \* the connection under the codec: closed, times closed, requests written
    hist        \* history: registration order, results of Close

cvars == <<seq, pending, closing, shutdown, sending, mu, calls, chans, recv, conn, hist>>

VARIABLES
    stream,         \* the frames the peer wrote to the server connection, in order
    handleTimeout,  \* Option.HandleTimeout of the connection
    reader,         \* the serveCodec goroutine: position, frames consumed, request read
    reqs,           \* the requests read so far and their handleRequest goroutines
    connSending,    \* holder of the connection's sending mutex
    out,            \* the frames written to the codec, in order
    wg,             \* the WaitGroup counter
    ccClosed,       \* times cc.Close was called
    hsOpt,          \* the handshake the peer sent: the JSON Option before the frames
    ccMade,         \* whether ServeConn instantiated the codec: f(conn)
    connCloses      \* times ServeConn's deferred conn.Close() ran

svars == <<stream, handleTimeout, reader, reqs, connSending, out, wg, ccClosed,
           hsOpt, ccMade, connCloses>>

VARIABLES
    now,            \* the clock: what time.Now() returns
    regTimeout,     \* ZRegistry.timeout
    regServers,     \* ZRegistry.servers: addr -> start of its ServerItem
    regReply,       \* the last response of ZRegistry.ServeHTTP
    lastPost        \* history: addr -> time of its last accepted POST

rvars == <<now, regTimeout, regServers, regReply, lastPost>>

VARIABLES
    dTimeout,       \* ZRegistryDiscovery.timeout
    dServers,       \* MultiServersDiscovery.servers
    dIndex,         \* MultiServersDiscovery.index
    lastUpdate,     \* ZRegistryDiscovery.lastUpdate
    dcall,          \* the callers of Get and GetAll: position, call time, last result
    dlog,           \* history: the last GET sent to the registry or the last Update
    picks           \* history: what Get(RoundRobinSelect) returned, in order

dvars == <<dTimeout, dServers, dIndex, lastUpdate, dcall, dlog, picks>>

VARIABLES
    dials           \* the calls of dialTimeout: position, connection, result

lvars == <<dials>>

vars == <<cvars, svars, rvars, dvars, lvars>>

nonClientVars == <<svars, rvars, dvars, lvars>>
nonServerVars == <<cvars, rvars, dvars, lvars>>
nonRegistryVars == <<cvars, svars, lvars>>
nonDialVars == <<cvars, svars, rvars, dvars>>

(***************************************************************************)
(* Helpers over the client state.                                          *)
(***************************************************************************)
NewCall == [pc |-> "new", kind |-> "none", Seq |-> 0, Error |-> "nil", Done |-> UserChan,
            reply |-> FALSE, signals |-> 0, ret |-> "none", took |-> FALSE]

ChanCap(ch) ==
    IF ch = UserChan THEN UserCap
    ELSE IF calls[ch].kind = "Call" THEN CallDoneCap ELSE DefaultDoneCap

\* call.done(): call.Done <- call; blocks while the channel is full
CanSignal(c) == Len(chans[calls[c].Done]) < ChanCap(calls[c].Done)

Signalled(cs, c) == [cs EXCEPT ![c].signals = @ + 1]

Enqueued(c) == [chans EXCEPT ![calls[c].Done] = Append(@, c)]

\* delete(client.pending, seq)
Without(p, s) == [k \in (DOMAIN p) \ {s} |-> p[k]]

\* client.pending[seq], nil when absent
Lookup(p, s) == IF s \in DOMAIN p THEN p[s] ELSE NoCall

\* client.pending[call.Seq] = call
With(p, s, c) == [k \in (DOMAIN p) \cup {s} |-> IF k = s THEN c ELSE p[k]]

\* faulty variant: the counter is not advanced
NextSeqStuck(s) == s

\* client.seq++
NextSeq(s) == s + 1

\* the calls in client.pending
Pending == {pending[s] : s \in DOMAIN pending}

\* var h codec.Header
NoHeader == [Seq |-> 0, Error |-> ""]

\* where a caller is once send has returned
AfterSend(c) == IF calls[c].kind = "Call" THEN "select" ELSE "returned"


(***************************************************************************)
(* The callers: Client.Go, Client.send, Client.Call.                       *)
(***************************************************************************)
\* Go: the done channel is nil (one of DefaultDoneCap is made), or the user's
\* buffered one; Call makes one of CallDoneCap.  Calls are created in order.
Go(c, k, ch) ==
    /\ calls[c].pc = "new"
    /\ \A d \in CallIds : d < c => calls[d].pc # "new"
    /\ ch \in {c, UserChan}
    /\ k = "Call" => ch = c
    /\ calls' = [calls EXCEPT ![c].pc = "send", ![c].kind = k, ![c].Done = ch]
    /\ UNCHANGED <<seq, pending, closing, shutdown, sending, mu, chans, recv, conn, hist>>
    /\ UNCHANGED nonClientVars

\* faulty variant: send does not wait for the sending mutex
SendLockFree(c) ==
    /\ calls[c].pc = "send"
    /\ sending' = c
    /\ calls' = [calls EXCEPT ![c].pc = "register"]
    /\ UNCHANGED <<seq, pending, closing, shutdown, mu, chans, recv, conn, hist>>
    /\ UNCHANGED nonClientVars

\* send: client.sending.Lock()
SendLock(c) ==
    /\ calls[c].pc = "send"
    /\ sending = NoHolder
    /\ sending' = c
    /\ calls' = [calls EXCEPT ![c].pc = "register"]
    /\ UNCHANGED <<seq, pending, closing, shutdown, mu, chans, recv, conn, hist>>
    /\ UNCHANGED nonClientVars

\* faulty variant: registerCall tests shutdown alone
RegisterCallIgnoresClosing(c) ==
    /\ calls[c].pc = "register"
    /\ mu = NoHolder
    /\ IF shutdown
       THEN /\ calls' = [calls EXCEPT ![c].Error = "ErrShutdown", ![c].pc = "rejected"]
            /\ UNCHANGED <<seq, pending, hist>>
       ELSE /\ calls' = [calls EXCEPT ![c].Seq = seq, ![c].pc = "write"]
            /\ pending' = With(pending, seq, c)
            /\ seq' = NextSeq(seq)
            /\ hist' = [hist EXCEPT !.regOrder = Append(@, c)]
    /\ UNCHANGED <<closing, shutdown, sending, mu, chans, recv, conn>>
    /\ UNCHANGED nonClientVars

\* registerCall, under mu
RegisterCall(c) ==
    /\ calls[c].pc = "register"
    /\ mu = NoHolder
    /\ IF closing \/ shutdown
       THEN /\ calls' = [calls EXCEPT ![c].Error = "ErrShutdown", ![c].pc = "rejected"]
            /\ UNCHANGED <<seq, pending, hist>>
       ELSE /\ calls' = [calls EXCEPT ![c].Seq = seq, ![c].pc = "write"]
            /\ pending' = With(pending, seq, c)
            /\ seq' = NextSeq(seq)
            /\ hist' = [hist EXCEPT !.regOrder = Append(@, c)]
    /\ UNCHANGED <<closing, shutdown, sending, mu, chans, recv, conn>>
    /\ UNCHANGED nonClientVars

\* send: registerCall failed; call.done() and return
SendRejected(c) ==
    /\ calls[c].pc = "rejected"
    /\ CanSignal(c)
    /\ chans' = Enqueued(c)
    /\ calls' = [Signalled(calls, c) EXCEPT ![c].pc = AfterSend(c)]
    /\ sending' = NoHolder
    /\ UNCHANGED <<seq, pending, closing, shutdown, mu, recv, conn, hist>>
    /\ UNCHANGED nonClientVars

\* send: client.cc.Write succeeded
WriteOk(c) ==
    /\ calls[c].pc = "write"
    /\ ~conn.closed
    /\ conn' = [conn EXCEPT !.wire = Append(@, [call |-> c, Seq |-> calls[c].Seq])]
    /\ calls' = [calls EXCEPT ![c].pc = AfterSend(c)]
    /\ sending' = NoHolder
    /\ UNCHANGED <<seq, pending, closing, shutdown, mu, chans, recv, hist>>
    /\ UNCHANGED nonClientVars

\* send: client.cc.Write failed
WriteFail(c) ==
    /\ calls[c].pc = "write"
    /\ calls' = [calls EXCEPT ![c].pc = "wfail"]
    /\ UNCHANGED <<seq, pending, closing, shutdown, sending, mu, chans, recv, conn, hist>>
    /\ UNCHANGED nonClientVars

\* faulty variant: send signals done after a failed Write without the test call != nil
SendRemoveCallNoNilTest(c) ==
    /\ calls[c].pc = "wfail"
    /\ mu = NoHolder
    /\ pending' = Without(pending, calls[c].Seq)
    /\ calls' = [calls EXCEPT ![c].Error = "WriteErr", ![c].pc = "wfailDone"]
    /\ UNCHANGED <<seq, closing, shutdown, sending, mu, chans, recv, conn, hist>>
    /\ UNCHANGED nonClientVars

\* send: call := client.removeCall(seq) after the failed Write
SendRemoveCall(c) ==
    /\ calls[c].pc = "wfail"
    /\ mu = NoHolder
    /\ pending' = Without(pending, calls[c].Seq)
    /\ IF Lookup(pending, calls[c].Seq) # NoCall
       THEN /\ calls' = [calls EXCEPT ![Lookup(pending, calls[c].Seq)].Error = "WriteErr",
                                      ![c].pc = "wfailDone"]
            /\ UNCHANGED sending
       ELSE /\ calls' = [calls EXCEPT ![c].pc = AfterSend(c)]
            /\ sending' = NoHolder
    /\ UNCHANGED <<seq, closing, shutdown, mu, chans, recv, conn, hist>>
    /\ UNCHANGED nonClientVars

\* send: call.done() after the failed Write
SendFailDone(c) ==
    /\ calls[c].pc = "wfailDone"
    /\ CanSignal(c)
    /\ chans' = Enqueued(c)
    /\ calls' = [Signalled(calls, c) EXCEPT ![c].pc = AfterSend(c)]
    /\ sending' = NoHolder
    /\ UNCHANGED <<seq, pending, closing, shutdown, mu, recv, conn, hist>>
    /\ UNCHANGED nonClientVars

\* Call: case call := <-call.Done: return call.Error
CallDone(c) ==
    /\ calls[c].pc = "select"
    /\ chans[calls[c].Done] # <<>>
    /\ calls' = [calls EXCEPT ![c].ret = calls[Head(chans[calls[c].Done])].Error,
                              ![c].pc = "returned"]
    /\ chans' = [chans EXCEPT ![calls[c].Done] = Tail(@)]
    /\ UNCHANGED <<seq, pending, closing, shutdown, sending, mu, recv, conn, hist>>
    /\ UNCHANGED nonClientVars

\* Call: case <-ctx.Done() is chosen
CallCtxDone(c) ==
    /\ calls[c].pc = "select"
    /\ calls' = [calls EXCEPT ![c].pc = "cancel"]
    /\ UNCHANGED <<seq, pending, closing, shutdown, sending, mu, chans, recv, conn, hist>>
    /\ UNCHANGED nonClientVars

\* faulty variant: Call returns on ctx.Done() without removeCall
CallCancelKeeps(c) ==
    /\ calls[c].pc = "cancel"
    /\ mu = NoHolder
    /\ calls' = [calls EXCEPT ![c].ret = "CallFailed", ![c].pc = "returned"]
    /\ UNCHANGED <<seq, pending, closing, shutdown, sending, mu, chans, recv, conn, hist>>
    /\ UNCHANGED nonClientVars

\* Call: client.removeCall(call.Seq); return "rpc client: call failed: ..."
CallCancel(c) ==
    /\ calls[c].pc = "cancel"
    /\ mu = NoHolder
    /\ pending' = Without(pending, calls[c].Seq)
    /\ calls' = [calls EXCEPT ![c].ret = "CallFailed", ![c].pc = "returned",
                              ![c].took = (Lookup(pending, calls[c].Seq) # NoCall)]
    /\ UNCHANGED <<seq, closing, shutdown, sending, mu, chans, recv, conn, hist>>
    /\ UNCHANGED nonClientVars

\* the user of Go receives from a done channel
UserRecv(ch) ==
    /\ chans[ch] # <<>>
    /\ ch # UserChan => calls[ch].kind = "Go"
    /\ chans' = [chans EXCEPT ![ch] = Tail(@)]
    /\ UNCHANGED <<seq, pending, closing, shutdown, sending, mu, calls, recv, conn, hist>>
    /\ UNCHANGED nonClientVars

\* faulty variant: Close without the test of client.closing
CloseUnguarded ==
    /\ Len(hist.closes) < MaxCloses
    /\ mu = NoHolder
    /\ closing' = TRUE
    /\ conn' = [conn EXCEPT !.closed = TRUE, !.closes = @ + 1]
    /\ hist' = [hist EXCEPT !.closes = Append(@, "CloseResult")]
    /\ UNCHANGED <<seq, pending, shutdown, sending, mu, calls, chans, recv>>
    /\ UNCHANGED nonClientVars

\* faulty variant: Close sets closing and leaves the codec open
CloseLeavesCodecOpen ==
    /\ Len(hist.closes) < MaxCloses
    /\ mu = NoHolder
    /\ IF closing
       THEN /\ hist' = [hist EXCEPT !.closes = Append(@, "ErrShutdown")]
            /\ UNCHANGED <<closing, conn>>
       ELSE /\ closing' = TRUE
            /\ conn' = [conn EXCEPT !.closes = @ + 1]
            /\ hist' = [hist EXCEPT !.closes = Append(@, "CloseResult")]
    /\ UNCHANGED <<seq, pending, shutdown, sending, mu, calls, chans, recv>>
    /\ UNCHANGED nonClientVars

\* Client.Close, under mu; "CloseResult" is what client.cc.Close() returns
Close ==
    /\ Len(hist.closes) < MaxCloses
    /\ mu = NoHolder
    /\ IF closing
       THEN /\ hist' = [hist EXCEPT !.closes = Append(@, "ErrShutdown")]
            /\ UNCHANGED <<closing, conn>>
       ELSE /\ closing' = TRUE
            /\ conn' = [conn EXCEPT !.closed = TRUE, !.closes = @ + 1]
            /\ hist' = [hist EXCEPT !.closes = Append(@, "CloseResult")]
    /\ UNCHANGED <<seq, pending, shutdown, sending, mu, calls, chans, recv>>
    /\ UNCHANGED nonClientVars


(***************************************************************************)
(* The receive goroutine: Client.receive and Client.terminateCalls.        *)
(***************************************************************************)
\* receive: client.cc.ReadHeader(&h) reads the header of a response; the peer
\* answers sequence numbers the client has handed out
ReadHeader(s, e) ==
    /\ recv.pc = "readHeader"
    /\ s < seq
    /\ ~conn.closed
    /\ recv' = [recv EXCEPT !.pc = "remove", !.h = [Seq |-> s, Error |-> e]]
    /\ UNCHANGED <<seq, pending, closing, shutdown, sending, mu, calls, chans, conn, hist>>
    /\ UNCHANGED nonClientVars

\* receive: client.cc.ReadHeader(&h) fails (end of stream, closed connection,
\* undecodable header); the loop breaks
ReadHeaderFail ==
    /\ recv.pc = "readHeader"
    /\ recv' = [recv EXCEPT !.pc = "termLock", !.err = TRUE]
    /\ UNCHANGED <<seq, pending, closing, shutdown, sending, mu, calls, chans, conn, hist>>
    /\ UNCHANGED nonClientVars

\* receive: call := client.removeCall(h.Seq)
RecvRemoveCall ==
    /\ recv.pc = "remove"
    /\ mu = NoHolder
    /\ recv' = [recv EXCEPT !.pc = "body", !.call = Lookup(pending, recv.h.Seq)]
    /\ pending' = Without(pending, recv.h.Seq)
    /\ UNCHANGED <<seq, closing, shutdown, sending, mu, calls, chans, conn, hist>>
    /\ UNCHANGED nonClientVars

\* receive: the three cases of the switch up to ReadBody; ok is whether
\* ReadBody succeeds
RecvBody(ok) ==
    /\ recv.pc = "body"
    /\ IF recv.call = NoCall
       THEN /\ recv' = [recv EXCEPT !.pc = IF ok THEN "readHeader" ELSE "termLock",
                                    !.err = ~ok, !.h = NoHeader]
            /\ UNCHANGED calls
       ELSE /\ recv' = [recv EXCEPT !.pc = "done", !.err = ~ok, !.h = NoHeader]
            /\ calls' = IF recv.h.Error # ""
                        THEN [calls EXCEPT ![recv.call].Error = recv.h.Error]
                        ELSE IF ok
                             THEN [calls EXCEPT ![recv.call].reply = TRUE]
                             ELSE [calls EXCEPT ![recv.call].Error = "ReadingBody"]
    /\ UNCHANGED <<seq, pending, closing, shutdown, sending, mu, chans, conn, hist>>
    /\ UNCHANGED nonClientVars

\* receive: call.done() of the second and third case, then the loop test
RecvDone ==
    /\ recv.pc = "done"
    /\ CanSignal(recv.call)
    /\ chans' = Enqueued(recv.call)
    /\ calls' = Signalled(calls, recv.call)
    /\ recv' = [recv EXCEPT !.pc = IF recv.err THEN "termLock" ELSE "readHeader",
                            !.call = NoCall]
    /\ UNCHANGED <<seq, pending, closing, shutdown, sending, mu, conn, hist>>
    /\ UNCHANGED nonClientVars

\* faulty variant: terminateCalls locks mu before sending
TermLockMuFirst ==
    /\ recv.pc = "termLock"
    /\ IF mu # Receiver
       THEN /\ mu = NoHolder
            /\ mu' = Receiver
            /\ UNCHANGED <<sending, shutdown, recv>>
       ELSE /\ sending = NoHolder
            /\ sending' = Receiver
            /\ shutdown' = TRUE
            /\ recv' = [recv EXCEPT !.pc = "termRange", !.todo = DOMAIN pending]
            /\ UNCHANGED mu
    /\ UNCHANGED <<seq, pending, closing, calls, chans, conn, hist>>
    /\ UNCHANGED nonClientVars

\* terminateCalls: client.sending.Lock()
TermLockSending ==
    /\ recv.pc = "termLock"
    /\ sending = NoHolder
    /\ sending' = Receiver
    /\ recv' = [recv EXCEPT !.pc = "termMu"]
    /\ UNCHANGED <<seq, pending, closing, shutdown, mu, calls, chans, conn, hist>>
    /\ UNCHANGED nonClientVars

\* faulty variant: terminateCalls sets shutdown and skips the range over client.pending
TermLockMuNoRange ==
    /\ recv.pc = "termMu"
    /\ mu = NoHolder
    /\ mu' = Receiver
    /\ shutdown' = TRUE
    /\ recv' = [recv EXCEPT !.pc = "termRange", !.todo = {}]
    /\ UNCHANGED <<seq, pending, closing, sending, calls, chans, conn, hist>>
    /\ UNCHANGED nonClientVars

\* terminateCalls: client.mu.Lock(); client.shutdown = true; the range over
\* client.pending starts
TermLockMu ==
    /\ recv.pc = "termMu"
    /\ mu = NoHolder
    /\ mu' = Receiver
    /\ shutdown' = TRUE
    /\ recv' = [recv EXCEPT !.pc = "termRange", !.todo = DOMAIN pending]
    /\ UNCHANGED <<seq, pending, closing, sending, calls, chans, conn, hist>>
    /\ UNCHANGED nonClientVars

\* terminateCalls: one iteration of the range: call.Error = err; call.done()
TermCall(s) ==
    /\ recv.pc = "termRange"
    /\ s \in recv.todo
    /\ CanSignal(pending[s])
    /\ chans' = Enqueued(pending[s])
    /\ calls' = [Signalled(calls, pending[s]) EXCEPT ![pending[s]].Error = "ReadErr"]
    /\ recv' = [recv EXCEPT !.todo = @ \ {s}]
    /\ UNCHANGED <<seq, pending, closing, shutdown, sending, mu, conn, hist>>
    /\ UNCHANGED nonClientVars

\* terminateCalls: the range is over; both mutexes are unlocked and receive returns
TermUnlock ==
    /\ recv.pc = "termRange"
    /\ recv.todo = {}
    /\ mu' = NoHolder
    /\ sending' = NoHolder
    /\ recv' = [recv EXCEPT !.pc = "exited"]
    /\ UNCHANGED <<seq, pending, closing, shutdown, calls, chans, conn, hist>>
    /\ UNCHANGED nonClientVars

(***************************************************************************)
(* The client after newClientCodec, and its specification.                 *)
(***************************************************************************)
ClientInit ==
    /\ seq = FirstSeq
    /\ pending = [s \in {} |-> NoCall]
    /\ closing = FALSE
    /\ shutdown = FALSE
    /\ sending = NoHolder
    /\ mu = NoHolder
    /\ calls = [c \in CallIds |-> NewCall]
    /\ chans = [ch \in ChanIds |-> <<>>]
    /\ recv = [pc |-> "readHeader", h |-> NoHeader, call |-> NoCall,
               err |-> FALSE, todo |-> {}]
    /\ conn = [closed |-> FALSE, closes |-> 0, wire |-> <<>>]
    /\ hist = [regOrder |-> <<>>, closes |-> <<>>]

ServerIdle ==
    /\ stream = <<>>
    /\ handleTimeout = 0
    /\ reader = [pc |-> "idle"]
    /\ reqs = <<>>
    /\ connSending = NoHolder
    /\ out = <<>>
    /\ wg = 0
    /\ ccClosed = 0
    /\ hsOpt = [json |-> FALSE, MagicNumber |-> 0, CodecType |-> ""]
    /\ ccMade = FALSE
    /\ connCloses = 0

\* no registry, no discovery and no dial is running
RestIdle ==
    /\ now = 0
    /\ regTimeout = 0
    /\ regServers = <<>>
    /\ regReply = [method |-> "none"]
    /\ lastPost = <<>>
    /\ dTimeout = 0
    /\ dServers = <<>>
    /\ dIndex = 0
    /\ lastUpdate = 0
    /\ dcall = <<>>
    /\ dlog = <<>>
    /\ picks = <<>>
    /\ dials = <<>>

CallerNext ==
    \/ \E c \in CallIds, k \in {"Call", "Go"}, ch \in ChanIds : Go(c, k, ch)
    \/ \E c \in CallIds : SendLock(c)
    \/ \E c \in CallIds : RegisterCall(c)
    \/ \E c \in CallIds : SendRejected(c)
    \/ \E c \in CallIds : WriteOk(c)
    \/ \E c \in CallIds : WriteFail(c)
    \/ \E c \in CallIds : SendRemoveCall(c)
    \/ \E c \in CallIds : SendFailDone(c)
    \/ \E c \in CallIds : CallDone(c)
    \/ \E c \in CallIds : CallCtxDone(c)
    \/ \E c \in CallIds : CallCancel(c)

ReceiveNext ==
    \/ \E s \in SeqNums, e \in {"", "ServerErr"} : ReadHeader(s, e)
    \/ ReadHeaderFail
    \/ RecvRemoveCall
    \/ \E ok \in BOOLEAN : RecvBody(ok)
    \/ RecvDone
    \/ TermLockSending
    \/ TermLockMu
    \/ \E s \in SeqNums : TermCall(s)
    \/ TermUnlock

ClientNext ==
    \/ CallerNext
    \/ ReceiveNext
    \/ \E ch \in ChanIds : UserRecv(ch)
    \/ Close

\* a client alone: no server connection is served
ClientAlone == ClientInit /\ ServerIdle /\ RestIdle

ClientSpec == ClientAlone /\ [][ClientNext]_vars


(***************************************************************************)
(* Properties of the client.                                               *)
(***************************************************************************)
\* send has returned for call c
SendReturned(c) == calls[c].pc \in {"select", "cancel", "returned"}

\* call c has left the hands of the client: send returned, and the call is
\* neither in pending nor held by the receive goroutine, or terminateCalls ran
Finished(c) ==
    /\ SendReturned(c)
    /\ \/ c \notin Pending /\ recv.call # c
       \/ recv.pc = "exited"

\* C1 as stated: on every path that finishes a call, the ctx cancellation of
\* a synchronous Call included, done is signalled exactly once.
C1_DoneExactlyOnceEveryPath ==
    \A c \in CallIds :
        /\ calls[c].signals <= 1
        /\ Finished(c) => calls[c].signals = 1

\* C1 as amended: done is signalled at most once for every call, and exactly
\* once for every finished call that Call's removeCall did not take out of
\* pending (a cancelled Call returns without a signal).
C1_DoneOnceUnlessCancelled ==
    \A c \in CallIds :
        /\ calls[c].signals <= 1
        /\ (Finished(c) /\ ~calls[c].took) => calls[c].signals = 1

\* two calls finished on two different paths, one of them by a failed Write
\* whose call the receive goroutine had not taken
C1_Witness ==
    /\ \E c \in CallIds : Finished(c) /\ calls[c].Error = "WriteErr" /\ calls[c].signals = 1
    /\ \E c \in CallIds : Finished(c) /\ calls[c].Error = "ReadErr" /\ calls[c].signals = 1

\* C2: sequence numbers start at FirstSeq and are strictly increasing in
\* registration order, so no two calls share one, and every seq in pending
\* is below the client's counter.
C2_SeqMonotone ==
    /\ \A i, j \in 1..Len(hist.regOrder) :
          i < j => calls[hist.regOrder[i]].Seq < calls[hist.regOrder[j]].Seq
    /\ Len(hist.regOrder) > 0 => calls[hist.regOrder[1]].Seq = FirstSeq
    /\ \A s \in DOMAIN pending : s < seq /\ calls[pending[s]].Seq = s

\* two calls are registered and both are still pending
C2_Witness == Len(hist.regOrder) >= 2 /\ Cardinality(DOMAIN pending) >= 2

\* C4: a registerCall made while the client is closing or shutdown finishes
\* the call with ErrShutdown and leaves pending, the seq counter and the
\* requests written as they are; a call finished so is in neither pending
\* nor the requests written.
C4_RejectStep ==
    \A c \in CallIds :
        (calls[c].pc = "register" /\ calls'[c].pc # "register" /\ (closing \/ shutdown))
        => /\ calls'[c].Error = "ErrShutdown"
           /\ calls'[c].pc = "rejected"
           /\ pending' = pending
           /\ seq' = seq
           /\ conn'.wire = conn.wire

C4_Rejected ==
    \A c \in CallIds :
        calls[c].Error = "ErrShutdown"
        => /\ c \notin Pending
           /\ \A i \in 1..Len(conn.wire) : conn.wire[i].call # c
           /\ calls[c].pc # "rejected" => calls[c].signals = 1

C4_ShutdownRejects == [][C4_RejectStep]_vars /\ []C4_Rejected

\* a call made after Close was finished with ErrShutdown
C4_Witness ==
    \E c \in CallIds :
        /\ closing
        /\ calls[c].Error = "ErrShutdown"
        /\ calls[c].signals = 1
        /\ SendReturned(c)

\* C6 as stated: once terminateCalls has run, pending holds no call.
C6_PendingEmptyAfterTeardown == recv.pc = "exited" => DOMAIN pending = {}

\* C6 as amended: terminateCalls leaves pending as it is; once it has run,
\* every call still in pending has an error and its one done signal.  A call
\* that was answered or cancelled is not in pending.
C6_PendingFinishedAfterTeardown ==
    /\ recv.pc = "exited" =>
          \A c \in Pending : calls[c].Error # "nil" /\ calls[c].signals = 1
    /\ \A c \in CallIds : (calls[c].took \/ calls[c].reply) => c \notin Pending

\* terminateCalls has run and a call is still in pending
C6_Witness == recv.pc = "exited" /\ DOMAIN pending # {}

\* C7: a cancelled Call returns "call failed" with its seq out of pending; a
\* response header read for the seq of such a call finds no call, and the
\* receive goroutine then drains the body, writes no reply, signals no done
\* and goes on reading (or ends on the failure of that ReadBody).
C7_CancelStep ==
    \A c \in CallIds :
        (calls[c].pc = "cancel" /\ calls'[c].pc # "cancel")
        => /\ calls'[c].ret = "CallFailed"
           /\ calls'[c].pc = "returned"
           /\ calls[c].Seq \notin DOMAIN pending'
           /\ c \notin {pending'[s] : s \in DOMAIN pending'}

C7_LateRemoveStep ==
    (/\ recv.pc = "remove"
     /\ recv'.pc = "body"
     /\ \E c \in CallIds : /\ calls[c].pc = "returned"
                           /\ calls[c].ret = "CallFailed"
                           /\ calls[c].Seq = recv.h.Seq)
    => recv'.call = NoCall

C7_DrainStep ==
    (recv.pc = "body" /\ recv.call = NoCall /\ recv'.pc # "body")
    => /\ calls' = calls
       /\ chans' = chans
       /\ recv'.pc = IF recv'.err THEN "termLock" ELSE "readHeader"

C7_CancelDiscardsLateResponse ==
    [][C7_CancelStep /\ C7_LateRemoveStep /\ C7_DrainStep]_vars

\* the receive goroutine has read the header of a response to a cancelled
\* Call and found no call for it
C7_Witness ==
    /\ recv.pc = "body"
    /\ recv.call = NoCall
    /\ \E c \in CallIds : /\ calls[c].took
                          /\ calls[c].ret = "CallFailed"
                          /\ calls[c].Seq = recv.h.Seq

\* C8: over any sequence of Close calls the codec is closed once, by the
\* first, which returns the codec's result; every later Close returns
\* ErrShutdown.
C8_CloseIdempotent ==
    /\ conn.closes = (IF hist.closes = <<>> THEN 0 ELSE 1)
    /\ conn.closed <=> closing
    /\ \A i \in 1..Len(hist.closes) :
          hist.closes[i] = (IF i = 1 THEN "CloseResult" ELSE "ErrShutdown")

\* Close was called twice
C8_Witness == Len(hist.closes) >= 2 /\ hist.closes[2] = "ErrShutdown"

\* C11 as stated: a ReadBody failure on a response whose header was valid and
\* matched a call finishes that call alone with "reading body <err>": after
\* its done signal the receive loop reads the next header, the client is not
\* shutdown by it and no other pending call gets an error from it.
C11_BodyFailStep ==
    (/\ recv.pc = "done"
     /\ calls[recv.call].Error = "ReadingBody"
     /\ recv'.pc # "done")
    => /\ recv'.pc = "readHeader"
       /\ shutdown' = shutdown
       /\ \A c \in CallIds : c # recv.call => calls'[c].Error = calls[c].Error

C11_BodyFailureIsPerCall == [][C11_BodyFailStep]_vars

\* task t is at a client.sending.Lock(): a caller entering send, or the
\* receive goroutine entering terminateCalls
WaitsSending(t) ==
    IF t = Receiver THEN recv.pc = "termLock" ELSE calls[t].pc = "send"

\* task t is at a client.mu.Lock(): registerCall and removeCall of a caller,
\* removeCall and terminateCalls of the receive goroutine
WaitsMu(t) ==
    IF t = Receiver THEN recv.pc \in {"remove", "termMu"}
    ELSE calls[t].pc \in {"register", "wfail", "cancel"}

Tasks == CallIds \cup {Receiver}

\* C21: sending is taken before mu: no task is at sending.Lock() while it
\* holds mu, a task that holds mu over several steps holds sending too, and
\* no two tasks each hold one mutex and wait for the other.
C21_LockOrder ==
    /\ \A t \in Tasks : mu = t => ~WaitsSending(t) /\ sending = t
    /\ \A t, u \in Tasks :
          ~(/\ t # u
            /\ sending = t /\ WaitsMu(t)
            /\ mu = u /\ WaitsSending(u))

\* a caller holds sending and is at a mu.Lock() while the receive goroutine
\* waits for sending at the start of terminateCalls; another call has returned
C21_Witness ==
    /\ recv.pc = "termLock"
    /\ \E c \in CallIds : sending = c /\ WaitsMu(c)
    /\ \E c \in CallIds : calls[c].pc = "returned"

\* the calls registered so far
Registered == {hist.regOrder[i] : i \in 1..Len(hist.regOrder)}

\* the requests written are in strictly increasing order of seq, each is the
\* request of a registered call under the seq it was given, and a caller at
\* its Write holds sending since before its registerCall: no seq was given
\* out after its own
C23_WireState ==
    /\ \A i, j \in 1..Len(conn.wire) : i < j => conn.wire[i].Seq < conn.wire[j].Seq
    /\ \A i \in 1..Len(conn.wire) :
          /\ conn.wire[i].call \in Registered
          /\ calls[conn.wire[i].call].Seq = conn.wire[i].Seq
    /\ \A c \in CallIds :
          calls[c].pc = "write"
          => sending = c /\ c \in Registered /\ NextSeq(calls[c].Seq) = seq

\* a request is written by the holder of sending, after its call was put in
\* pending, and its seq is above every seq written before
C23_WriteStep ==
    Len(conn'.wire) > Len(conn.wire)
    => LET w == conn'.wire[Len(conn'.wire)]
       IN  /\ sending = w.call
           /\ calls[w.call].pc = "write"
           /\ w.call \in Registered
           /\ \A i \in 1..Len(conn.wire) : conn.wire[i].Seq < w.Seq

\* C23: requests reach the wire in strictly increasing order of seq and a
\* call is put in pending before its request is written; the seq is given
\* and the request written in one critical section of sending.
C23_WireInSeqOrder == []C23_WireState /\ [][C23_WriteStep]_vars

\* two requests were written, the first of them for the call created last
C23_Witness ==
    /\ Len(conn.wire) = 2
    /\ conn.wire[1].call = MaxCalls
    /\ conn.wire[1].Seq = FirstSeq

\* C24: once a Call has returned the cancellation error, the receive
\* goroutine does not write the reply of that call.
C24_NoReplyStep ==
    \A c \in CallIds :
        (calls[c].pc = "returned" /\ calls[c].ret = "CallFailed")
        => calls'[c].reply = calls[c].reply

C24_NoReplyAfterCancel == [][C24_NoReplyStep]_vars

\* C25: signalling done never blocks: whenever the receive goroutine is at a
\* call.done(), in its loop or in terminateCalls under sending and mu, the
\* done channel of the call has room, whatever the user has read so far.
C25_DoneNeverBlocks ==
    /\ recv.pc = "done" => CanSignal(recv.call)
    /\ recv.pc = "termRange" => \A s \in recv.todo : CanSignal(pending[s])


(***************************************************************************)
(* The client under the fairness of the Go scheduler: a goroutine that can *)
(* take its next step takes it.  A read on a closed connection fails, a    *)
(* caller past its select does not wait, and the user of Go keeps          *)
(* receiving from the done channels it is given.  The peer need not        *)
(* answer, a ctx need not be cancelled and Close need not be called.       *)
(***************************************************************************)
ClientFairness ==
    /\ \A c \in CallIds :
          /\ WF_vars(SendLock(c))
          /\ WF_vars(RegisterCall(c))
          /\ WF_vars(SendRejected(c))
          /\ WF_vars(WriteOk(c) \/ WriteFail(c))
          /\ WF_vars(SendRemoveCall(c))
          /\ WF_vars(SendFailDone(c))
          /\ WF_vars(CallCancel(c))
    /\ \A ch \in ChanIds : WF_vars(UserRecv(ch))
    /\ WF_vars(conn.closed /\ ReadHeaderFail)
    /\ WF_vars(RecvRemoveCall)
    /\ WF_vars(\E ok \in BOOLEAN : RecvBody(ok))
    /\ WF_vars(RecvDone)
    /\ WF_vars(TermLockSending)
    /\ WF_vars(TermLockMu)
    /\ WF_vars(\E s \in SeqNums : TermCall(s))
    /\ WF_vars(TermUnlock)

ClientLiveSpec == ClientSpec /\ ClientFairness

\* call c is registered and no response header for it has been read
Outstanding(c) ==
    /\ c \in Pending
    /\ ~(recv.pc = "remove" /\ recv.h.Seq = calls[c].Seq)

\* the connection is being torn down: Close was called or a read failed
TornDown == closing \/ recv.err

MaxReqs == 2
    \* requests in the peer's stream

ReqHeader(s, m) == [t |-> "H", Seq |-> s, method |-> m]
ReqBody(s, ok) == [t |-> "B", Seq |-> s, ok |-> ok]

\* the streams of n requests: request i has seq i, names a registered or an
\* unknown service method, and has a body that decodes into argv or does not
RECURSIVE Streams(_)
Streams(n) ==
    IF n = 0 THEN {<<>>}
    ELSE {st \o <<ReqHeader(n, m), ReqBody(n, ok)>> :
             st \in Streams(n - 1), m \in {"known", "unknown"}, ok \in BOOLEAN}

\* the goroutines that write responses: the serveCodec goroutine, the handler
\* goroutine of request r and the timeout branch of handleRequest for r
NoWriter == <<"none", 0>>
ReaderW == <<"reader", 0>>
HandlerW(r) == <<"handler", r>>
TimeoutW(r) == <<"timeout", r>>

\* the frames cc.Write(h, body) produces
RespHeader(w, s, e) == [t |-> "H", by |-> w, Seq |-> s, Error |-> e]
RespBody(w, s) == [t |-> "B", by |-> w, Seq |-> s]

\* faulty variant: sendResponse without sending.Lock()
CanLockAlways == TRUE

\* sendResponse: sending.Lock() can return
CanLock == connSending = NoWriter

NoReq == [Seq |-> 0, Error |-> ""]

\* const MagicNumber = 0x3bef5c
MagicNumber == 3927900

GobType == "application/gob"
JsonType == "application/json"

\* codec.NewCodecFuncMap: init registers GobType alone
NewCodecFuncMap == {GobType}

\* the handshakes a peer can send: bytes that are no JSON value, or an Option
\* with some magic number and some codec type
Handshakes ==
    {[json |-> FALSE, MagicNumber |-> 0, CodecType |-> ""]}
    \cup [json : {TRUE}, MagicNumber : {MagicNumber, MagicNumber - 1},
          CodecType : {GobType, JsonType}]

\* faulty variant: ServeConn without the test of opt.MagicNumber
HandshakeOkAnyMagic(o) == o.json /\ o.CodecType \in NewCodecFuncMap

\* ServeConn: the three tests before serveCodec
HandshakeOk(o) ==
    /\ o.json
    /\ o.MagicNumber = MagicNumber
    /\ o.CodecType \in NewCodecFuncMap

ServerInit ==
    /\ stream \in UNION {Streams(n) : n \in 0..MaxReqs}
    /\ handleTimeout \in {0, 1}
    /\ reader = [pc |-> "handshake", pos |-> 0, req |-> NoReq]
    /\ reqs = <<>>
    /\ connSending = NoWriter
    /\ out = <<>>
    /\ wg = 0
    /\ ccClosed = 0
    /\ hsOpt \in Handshakes
    /\ ccMade = FALSE
    /\ connCloses = 0

\* ServeConn: the Option is decoded and tested; server.serveCodec(f(conn), &opt)
\* starts, or ServeConn returns and the deferred conn.Close() runs
ServeConn ==
    /\ reader.pc = "handshake"
    /\ IF HandshakeOk(hsOpt)
       THEN /\ ccMade' = TRUE
            /\ reader' = [reader EXCEPT !.pc = "readHeader"]
            /\ UNCHANGED connCloses
       ELSE /\ reader' = [reader EXCEPT !.pc = "returned"]
            /\ connCloses' = connCloses + 1
            /\ UNCHANGED ccMade
    /\ UNCHANGED <<hsOpt, stream, handleTimeout, reqs, connSending, out, wg, ccClosed>>
    /\ UNCHANGED nonServerVars

\* serveCodec: readRequest reads a header and findService finds the method or
\* fails; on failure readRequest returns without reading the body
SrvReadHeader ==
    /\ reader.pc = "readHeader"
    /\ reader.pos < Len(stream)
    /\ stream[reader.pos + 1].t = "H"
    /\ LET f == stream[reader.pos + 1] IN
       reader' = IF f.method = "known"
                 THEN [pc |-> "readBody", pos |-> reader.pos + 1,
                       req |-> [Seq |-> f.Seq, Error |-> ""]]
                 ELSE [pc |-> "errLock", pos |-> reader.pos + 1,
                       req |-> [Seq |-> f.Seq, Error |-> "CantFind"]]
    /\ UNCHANGED <<hsOpt, ccMade, connCloses, stream, handleTimeout, reqs, connSending, out, wg, ccClosed>>
    /\ UNCHANGED nonServerVars

\* serveCodec: cc.ReadHeader is handed a body frame and decodes it into some
\* Header, which names no registered service method
SrvReadHeaderOfBody ==
    /\ reader.pc = "readHeader"
    /\ reader.pos < Len(stream)
    /\ stream[reader.pos + 1].t = "B"
    /\ reader' = [pc |-> "errLock", pos |-> reader.pos + 1,
                  req |-> [Seq |-> 0, Error |-> "CantFind"]]
    /\ UNCHANGED <<hsOpt, ccMade, connCloses, stream, handleTimeout, reqs, connSending, out, wg, ccClosed>>
    /\ UNCHANGED nonServerVars

\* serveCodec: cc.ReadHeader fails, at the end of the stream or on a frame
\* that is no header; req == nil and the loop breaks
SrvReadHeaderFail ==
    /\ reader.pc = "readHeader"
    /\ IF reader.pos < Len(stream) THEN stream[reader.pos + 1].t = "B" ELSE TRUE
    /\ reader' = [reader EXCEPT !.pc = "wait"]
    /\ UNCHANGED <<hsOpt, ccMade, connCloses, stream, handleTimeout, reqs, connSending, out, wg, ccClosed>>
    /\ UNCHANGED nonServerVars

\* serveCodec: readRequest reads the body; then wg.Add(1) and
\* go server.handleRequest, or the error reply when the body does not decode
SrvReadBody ==
    /\ reader.pc = "readBody"
    /\ reader.pos < Len(stream)
    /\ IF stream[reader.pos + 1].t = "B" /\ stream[reader.pos + 1].ok
       THEN /\ reqs' = Append(reqs, [Seq |-> reader.req.Seq, Error |-> "", hpc |-> "select",
                                     gpc |-> "call", res |-> "none", timer |-> FALSE])
            /\ wg' = wg + 1
            /\ reader' = [pc |-> "readHeader", pos |-> reader.pos + 1, req |-> NoReq]
       ELSE /\ reader' = [reader EXCEPT !.pc = "errLock", !.pos = @ + 1,
                                        !.req.Error = "ReadBodyErr"]
            /\ UNCHANGED <<reqs, wg>>
    /\ UNCHANGED <<hsOpt, ccMade, connCloses, stream, handleTimeout, connSending, out, ccClosed>>
    /\ UNCHANGED nonServerVars

\* serveCodec: sendResponse(cc, req.h, invalidRequest, sending): the lock
SrvErrLock ==
    /\ reader.pc = "errLock"
    /\ CanLock
    /\ connSending' = ReaderW
    /\ reader' = [reader EXCEPT !.pc = "errHeader"]
    /\ UNCHANGED <<hsOpt, ccMade, connCloses, stream, handleTimeout, reqs, out, wg, ccClosed>>
    /\ UNCHANGED nonServerVars

\* ... cc.Write: the header frame
SrvErrWriteHeader ==
    /\ reader.pc = "errHeader"
    /\ out' = Append(out, RespHeader(ReaderW, reader.req.Seq, reader.req.Error))
    /\ reader' = [reader EXCEPT !.pc = "errBody"]
    /\ UNCHANGED <<hsOpt, ccMade, connCloses, stream, handleTimeout, reqs, connSending, wg, ccClosed>>
    /\ UNCHANGED nonServerVars

\* ... cc.Write: the body frame; sending.Unlock(); continue
SrvErrWriteBody ==
    /\ reader.pc = "errBody"
    /\ out' = Append(out, RespBody(ReaderW, reader.req.Seq))
    /\ connSending' = NoWriter
    /\ reader' = [reader EXCEPT !.pc = "readHeader", !.req = NoReq]
    /\ UNCHANGED <<hsOpt, ccMade, connCloses, stream, handleTimeout, reqs, wg, ccClosed>>
    /\ UNCHANGED nonServerVars

\* faulty variant: serveCodec closes the codec without wg.Wait()
SrvCloseNoWait ==
    /\ reader.pc = "wait"
    /\ ccClosed' = ccClosed + 1
    /\ reader' = [reader EXCEPT !.pc = "closed"]
    /\ UNCHANGED <<hsOpt, ccMade, connCloses, stream, handleTimeout, reqs, connSending, out, wg>>
    /\ UNCHANGED nonServerVars

\* serveCodec: wg.Wait() returns; cc.Close()
SrvClose ==
    /\ reader.pc = "wait"
    /\ wg = 0
    /\ ccClosed' = ccClosed + 1
    /\ reader' = [reader EXCEPT !.pc = "closed"]
    /\ UNCHANGED <<hsOpt, ccMade, connCloses, stream, handleTimeout, reqs, connSending, out, wg>>
    /\ UNCHANGED nonServerVars

\* ServeConn: serveCodec has returned; the deferred conn.Close() runs
ServeConnReturn ==
    /\ reader.pc = "closed"
    /\ reader' = [reader EXCEPT !.pc = "returned"]
    /\ connCloses' = connCloses + 1
    /\ UNCHANGED <<hsOpt, ccMade, stream, handleTimeout, reqs, connSending, out, wg, ccClosed>>
    /\ UNCHANGED nonServerVars


(***************************************************************************)
(* handleRequest for request r: the goroutine of the handler (gpc) and the *)
(* handleRequest goroutine itself (hpc).  called and sent are unbuffered:  *)
(* a send completes together with its receive.                             *)
(***************************************************************************)
Reqs == 1..Len(reqs)

\* the handler goroutine: req.svc.call returns e
HandlerReturns(r, e) ==
    /\ reqs[r].gpc = "call"
    /\ reqs' = [reqs EXCEPT ![r].gpc = "called", ![r].res = e]
    /\ UNCHANGED <<hsOpt, ccMade, connCloses, stream, handleTimeout, reader, connSending, out, wg, ccClosed>>
    /\ UNCHANGED nonServerVars

\* faulty variant: called is buffered: the handler goroutine goes on whether or not
\* handleRequest receives
SendCalledBuffered(r) ==
    /\ reqs[r].gpc = "called"
    /\ reqs' = [reqs EXCEPT ![r].gpc = "lock",
                            ![r].hpc = IF @ = "select" THEN "waitSent" ELSE @,
                            ![r].Error = IF reqs[r].res = "err" THEN "HandlerErr" ELSE @]
    /\ UNCHANGED <<hsOpt, ccMade, connCloses, stream, handleTimeout, reader, connSending, out, wg, ccClosed>>
    /\ UNCHANGED nonServerVars

\* called <- struct{}{} meets <-called (of the select, or of timeout == 0);
\* the handler goroutine then sets req.h.Error if the handler failed
SendCalled(r) ==
    /\ reqs[r].gpc = "called"
    /\ reqs[r].hpc = "select"
    /\ reqs' = [reqs EXCEPT ![r].gpc = "lock", ![r].hpc = "waitSent",
                            ![r].Error = IF reqs[r].res = "err" THEN "HandlerErr" ELSE @]
    /\ UNCHANGED <<hsOpt, ccMade, connCloses, stream, handleTimeout, reader, connSending, out, wg, ccClosed>>
    /\ UNCHANGED nonServerVars

\* the handler goroutine: sendResponse, the lock
HandlerLock(r) ==
    /\ reqs[r].gpc = "lock"
    /\ CanLock
    /\ connSending' = HandlerW(r)
    /\ reqs' = [reqs EXCEPT ![r].gpc = "header"]
    /\ UNCHANGED <<hsOpt, ccMade, connCloses, stream, handleTimeout, reader, out, wg, ccClosed>>
    /\ UNCHANGED nonServerVars

\* ... cc.Write: the header frame
HandlerWriteHeader(r) ==
    /\ reqs[r].gpc = "header"
    /\ out' = Append(out, RespHeader(HandlerW(r), reqs[r].Seq, reqs[r].Error))
    /\ reqs' = [reqs EXCEPT ![r].gpc = "body"]
    /\ UNCHANGED <<hsOpt, ccMade, connCloses, stream, handleTimeout, reader, connSending, wg, ccClosed>>
    /\ UNCHANGED nonServerVars

\* ... cc.Write: the body frame; sending.Unlock()
HandlerWriteBody(r) ==
    /\ reqs[r].gpc = "body"
    /\ out' = Append(out, RespBody(HandlerW(r), reqs[r].Seq))
    /\ connSending' = NoWriter
    /\ reqs' = [reqs EXCEPT ![r].gpc = "sent"]
    /\ UNCHANGED <<hsOpt, ccMade, connCloses, stream, handleTimeout, reader, wg, ccClosed>>
    /\ UNCHANGED nonServerVars

\* sent <- struct{}{} meets <-sent; handleRequest returns and wg.Done() runs
SendSent(r) ==
    /\ reqs[r].gpc = "sent"
    /\ reqs[r].hpc = "waitSent"
    /\ reqs' = [reqs EXCEPT ![r].gpc = "end", ![r].hpc = "returned"]
    /\ wg' = wg - 1
    /\ UNCHANGED <<hsOpt, ccMade, connCloses, stream, handleTimeout, reader, connSending, out, ccClosed>>
    /\ UNCHANGED nonServerVars

\* handleRequest: case <-time.After(timeout) is chosen; req.h.Error is set
Timer(r) ==
    /\ handleTimeout # 0
    /\ reqs[r].hpc = "select"
    /\ reqs' = [reqs EXCEPT ![r].hpc = "lock", ![r].timer = TRUE,
                            ![r].Error = "HandleTimeout"]
    /\ UNCHANGED <<hsOpt, ccMade, connCloses, stream, handleTimeout, reader, connSending, out, wg, ccClosed>>
    /\ UNCHANGED nonServerVars

\* handleRequest, timeout branch: sendResponse, the lock
TimeoutLock(r) ==
    /\ reqs[r].hpc = "lock"
    /\ CanLock
    /\ connSending' = TimeoutW(r)
    /\ reqs' = [reqs EXCEPT ![r].hpc = "header"]
    /\ UNCHANGED <<hsOpt, ccMade, connCloses, stream, handleTimeout, reader, out, wg, ccClosed>>
    /\ UNCHANGED nonServerVars

\* ... cc.Write: the header frame
TimeoutWriteHeader(r) ==
    /\ reqs[r].hpc = "header"
    /\ out' = Append(out, RespHeader(TimeoutW(r), reqs[r].Seq, reqs[r].Error))
    /\ reqs' = [reqs EXCEPT ![r].hpc = "body"]
    /\ UNCHANGED <<hsOpt, ccMade, connCloses, stream, handleTimeout, reader, connSending, wg, ccClosed>>
    /\ UNCHANGED nonServerVars

\* ... cc.Write: the body frame; sending.Unlock(); handleRequest returns and
\* wg.Done() runs
TimeoutWriteBody(r) ==
    /\ reqs[r].hpc = "body"
    /\ out' = Append(out, RespBody(TimeoutW(r), reqs[r].Seq))
    /\ connSending' = NoWriter
    /\ reqs' = [reqs EXCEPT ![r].hpc = "returned"]
    /\ wg' = wg - 1
    /\ UNCHANGED <<hsOpt, ccMade, connCloses, stream, handleTimeout, reader, ccClosed>>
    /\ UNCHANGED nonServerVars

\* a server connection alone: no client is constructed
ServerAlone == ClientInit /\ ServerInit /\ RestIdle

ServeNext ==
    \/ ServeConn
    \/ SrvReadHeader
    \/ SrvReadHeaderOfBody
    \/ SrvReadHeaderFail
    \/ SrvReadBody
    \/ SrvErrLock
    \/ SrvErrWriteHeader
    \/ SrvErrWriteBody
    \/ SrvClose
    \/ ServeConnReturn

HandleNext ==
    \/ \E r \in Reqs, e \in {"nil", "err"} : HandlerReturns(r, e)
    \/ \E r \in Reqs : SendCalled(r)
    \/ \E r \in Reqs : HandlerLock(r)
    \/ \E r \in Reqs : HandlerWriteHeader(r)
    \/ \E r \in Reqs : HandlerWriteBody(r)
    \/ \E r \in Reqs : SendSent(r)
    \/ \E r \in Reqs : Timer(r)
    \/ \E r \in Reqs : TimeoutLock(r)
    \/ \E r \in Reqs : TimeoutWriteHeader(r)
    \/ \E r \in Reqs : TimeoutWriteBody(r)

ServerNext == ServeNext \/ HandleNext

ServerSpec == ServerAlone /\ [][ServerNext]_vars


(***************************************************************************)
(* Properties of the server connection.                                    *)
(***************************************************************************)
\* the goroutines that are inside sendResponse for request r, or for the
\* reader's own error reply, waiting for the lock
WaitingWriters ==
    {HandlerW(r) : r \in {q \in Reqs : reqs[q].gpc = "lock"}}
    \cup {TimeoutW(r) : r \in {q \in Reqs : reqs[q].hpc = "lock"}}
    \cup (IF reader.pc = "errLock" THEN {ReaderW} ELSE {})

\* C3: the frames written are whole (header, body) pairs of one response
\* each: a header frame is followed by the body frame of the same writer and
\* seq before any other frame, and while a body is still to come its writer
\* holds the lock.
C3_ResponsesWhole ==
    /\ \A i \in 1..Len(out) :
          IF i % 2 = 1
          THEN /\ out[i].t = "H"
               /\ i = Len(out) => connSending = out[i].by
          ELSE /\ out[i].t = "B"
               /\ out[i].by = out[i - 1].by
               /\ out[i].Seq = out[i - 1].Seq
    /\ Len(out) % 2 = 0 =>
          \A r \in Reqs : reqs[r].gpc # "body" /\ reqs[r].hpc # "body"

\* a header is written, its body is not, and another writer waits for the lock
C3_Witness ==
    /\ Len(out) % 2 = 1
    /\ WaitingWriters # {}
    /\ connSending \notin WaitingWriters

\* the header frames written that carry seq s
HeadersOf(s) == {i \in 1..Len(out) : out[i].t = "H" /\ out[i].Seq = s}

\* C9: with a handle timeout, a dispatched request never has two responses
\* under its seq, and once handleRequest has returned it has exactly one:
\* the timeout error written by handleRequest if the timer was chosen, else
\* the handler's success or error written by the handler goroutine.
C9_OneResponsePerRequest ==
    handleTimeout # 0 =>
        \A r \in Reqs :
            /\ Cardinality(HeadersOf(reqs[r].Seq)) <= 1
            /\ reqs[r].hpc = "returned" =>
                  \E i \in HeadersOf(reqs[r].Seq) :
                      IF reqs[r].timer
                      THEN out[i].Error = "HandleTimeout" /\ out[i].by = TimeoutW(r)
                      ELSE /\ out[i].by = HandlerW(r)
                           /\ out[i].Error = (IF reqs[r].res = "err" THEN "HandlerErr" ELSE "")

\* two requests were answered, one by the timeout branch while its handler
\* has since returned, one by its handler
C9_Witness ==
    /\ handleTimeout # 0
    /\ \E r \in Reqs : /\ reqs[r].hpc = "returned" /\ reqs[r].timer
                       /\ reqs[r].gpc = "called"
    /\ \E r \in Reqs : reqs[r].hpc = "returned" /\ ~reqs[r].timer

\* C10: a request for an unknown service or method is answered with an error
\* under its own seq and the serve loop stays in frame sync: whenever the
\* reader is about to read a header, the next frame of the stream is a
\* header, and every response carries the seq of a request of the stream.
C10_UnknownMethodKeepsFrameSync ==
    /\ (reader.pc = "readHeader" /\ reader.pos < Len(stream))
          => stream[reader.pos + 1].t = "H"
    /\ \A i \in 1..Len(out) :
          \E j \in 1..Len(stream) : stream[j].t = "H" /\ stream[j].Seq = out[i].Seq
    /\ reader.pc = "closed" =>
          \A j \in 1..Len(stream) : stream[j].t = "H" => HeadersOf(stream[j].Seq) # {}

\* what the code keeps of it: the error response to a request whose service
\* method is unknown or whose body does not decode carries the seq of the request
ErrorReplyCarriesSeq ==
    (reader.pc \in {"errLock", "errHeader", "errBody"} /\ stream[reader.pos].t = "H")
        => reader.req.Seq = stream[reader.pos].Seq

\* C12: when the handshake is no JSON, has a magic number other than
\* 0x3bef5c or names a codec type that is not registered, ServeConn closes
\* the connection and does nothing else: no codec is made, no frame is read,
\* no handler is started and nothing is written.
C12_BadHandshakeRejected ==
    ~(hsOpt.json /\ hsOpt.MagicNumber = MagicNumber /\ hsOpt.CodecType = GobType)
    => /\ ~ccMade
       /\ reader.pc \in {"handshake", "returned"}
       /\ reader.pos = 0
       /\ reqs = <<>> /\ wg = 0
       /\ out = <<>>
       /\ ccClosed = 0
       /\ connCloses = (IF reader.pc = "returned" THEN 1 ELSE 0)

\* a handshake with a bad magic number, followed by a request, was rejected
C12_Witness ==
    /\ hsOpt.json /\ hsOpt.MagicNumber # MagicNumber /\ hsOpt.CodecType = GobType
    /\ stream # <<>>
    /\ reader.pc = "returned"

\* C18: the codec is closed once, after the read loop has ended and every
\* handleRequest of the connection has returned (the WaitGroup is at zero),
\* and no frame is written once it is closed, whether or not the handle
\* timeout fired for a request.
C18_ClosedState ==
    ccClosed > 0 =>
        /\ ccClosed = 1
        /\ reader.pc \in {"closed", "returned"}
        /\ wg = 0
        /\ \A r \in Reqs : reqs[r].hpc = "returned"
        /\ connSending = NoWriter
        /\ Len(out) % 2 = 0

C18_NoWriteAfterClose == ccClosed > 0 => out' = out

C18_CloseAfterHandlers == []C18_ClosedState /\ [][C18_NoWriteAfterClose]_vars

\* the codec is closed after a request was answered by the timeout branch, and
\* the handler of that request has returned since
C18_Witness ==
    /\ ccClosed = 1
    /\ \E r \in Reqs : reqs[r].timer /\ reqs[r].gpc = "called"

\* C20 as stated: after the timer won, the handler goroutine is not left
\* blocked: whenever it has returned from the handler and sends on called,
\* handleRequest is there to receive, so the goroutine goes on to its end.
C20_DetachedHandlerTerminates ==
    \A r \in Reqs : reqs[r].gpc = "called" => reqs[r].hpc = "select"


(***************************************************************************)
(* The registry (ZRegistry) and the discovery that reads it                *)
(* (ZRegistryDiscovery over MultiServersDiscovery).  Time is a counter of  *)
(* clock ticks; an address is a string, a sequence of characters.          *)
(***************************************************************************)
MaxTime == 3
    \* clock ticks
MaxTimeout == 2
    \* the registry timeouts and refresh intervals tried, in ticks
MaxCallers == 1
    \* concurrent callers of Get and GetAll on the discovery; each calls again
    \* and again

\* const defaultUpdateTimeout = time.Second * 10, in ticks
defaultUpdateTimeout == 10

\* the characters of the strings, in byte order
Alphabet == <<" ", ",", "a", "b">>

Ord(ch) == CHOOSE i \in 1..Len(Alphabet) : Alphabet[i] = ch

\* the addresses servers register: "a" and "ab"
Addrs == {<<"a">>, <<"a", "b">>}

\* s < t, as sort.Strings compares
RECURSIVE Less(_, _)
Less(s, t) ==
    IF t = <<>> THEN FALSE
    ELSE IF s = <<>> THEN TRUE
    ELSE IF Head(s) = Head(t) THEN Less(Tail(s), Tail(t))
    ELSE Ord(Head(s)) < Ord(Head(t))

\* faulty variant: the element is put in front, whatever its order
InsertFirst(x, l) == <<x>> \o l

\* x put at its place in the ascending list l
RECURSIVE Insert(_, _)
Insert(x, l) ==
    IF l = <<>> THEN <<x>>
    ELSE IF Less(Head(l), x) THEN <<Head(l)>> \o Insert(x, Tail(l))
    ELSE <<x>> \o l

\* sort.Strings(alive)
RECURSIVE SortStrings(_)
SortStrings(l) == IF l = <<>> THEN <<>> ELSE Insert(Head(l), SortStrings(Tail(l)))

\* strings.Join(l, ",")
RECURSIVE Join(_)
Join(l) ==
    IF l = <<>> THEN <<>>
    ELSE IF Len(l) = 1 THEN l[1]
    ELSE l[1] \o <<",">> \o Join(Tail(l))

\* strings.Split(s, ","): the pieces between the commas; one empty piece for ""
RECURSIVE Split(_)
Split(s) ==
    IF \A i \in 1..Len(s) : s[i] # ","
    THEN <<s>>
    ELSE LET i == CHOOSE k \in 1..Len(s) : s[k] = "," /\ \A j \in 1..(k - 1) : s[j] # ","
         IN  <<SubSeq(s, 1, i - 1)>> \o Split(SubSeq(s, i + 1, Len(s)))

\* strings.TrimSpace(s)
RECURSIVE TrimSpace(_)
TrimSpace(s) ==
    IF s = <<>> THEN s
    ELSE IF Head(s) = " " THEN TrimSpace(Tail(s))
    ELSE IF s[Len(s)] = " " THEN TrimSpace(SubSeq(s, 1, Len(s) - 1))
    ELSE s

\* Refresh: the pieces of the header, trimmed, the empty ones dropped
RECURSIVE TrimmedNonEmpty(_)
TrimmedNonEmpty(l) ==
    IF l = <<>> THEN <<>>
    ELSE IF TrimSpace(Head(l)) # <<>>
         THEN <<TrimSpace(Head(l))>> \o TrimmedNonEmpty(Tail(l))
         ELSE TrimmedNonEmpty(Tail(l))

\* the orders in which a range over a map with key set S can visit its keys
Orders(S) ==
    {o \in [1..Cardinality(S) -> S] : \A i, j \in 1..Cardinality(S) : i # j => o[i] # o[j]}

\* faulty variant: an entry is alive up to and including start + timeout, and
\* a timeout of 0 is no exception
AliveInclusive(start, t) == start + regTimeout >= t

\* aliveServers: r.timeout == 0 || s.start.Add(r.timeout).After(time.Now())
Alive(start, t) == regTimeout = 0 \/ start + regTimeout > t

\* faulty variant: aliveServers keeps the expired entries in the map
KeptAll(servers, t) == servers

\* aliveServers: the map without the entries that have expired at time t
Kept(servers, t) ==
    [a \in {b \in DOMAIN servers : Alive(servers[b], t)} |-> servers[a]]

\* aliveServers: the list returned when the range visits the map in order o
RECURSIVE AliveList(_, _, _)
AliveList(servers, o, t) ==
    IF o = <<>> THEN <<>>
    ELSE IF Alive(servers[Head(o)], t)
         THEN <<Head(o)>> \o AliveList(servers, Tail(o), t)
         ELSE AliveList(servers, Tail(o), t)

\* the clock advances
Tick ==
    /\ now < MaxTime
    /\ now' = now + 1
    /\ UNCHANGED <<regTimeout, regServers, regReply, lastPost>>
    /\ UNCHANGED dvars
    /\ UNCHANGED nonRegistryVars

NoReply == [method |-> "none", status |-> 0, list |-> <<>>, header |-> <<>>, odd |-> FALSE]

\* what ServeHTTP answers with no list of servers in it
Reply(method, status) ==
    [method |-> method, status |-> status, list |-> <<>>, header |-> <<>>,
     odd |-> ~regReply.odd]

\* ServeHTTP, case "GET": the list of aliveServers and the X-Zrpc-Servers
\* header made of it, when the range visits the map in order o
GetReply(o) ==
    [method |-> "GET", status |-> 200,
     list |-> SortStrings(AliveList(regServers, o, now)),
     header |-> Join(SortStrings(AliveList(regServers, o, now))),
     odd |-> ~regReply.odd]

\* ServeHTTP, case "POST": putServer(addr), or status 500 without the header
RegPost(a) ==
    /\ IF a = <<>>
       THEN /\ regReply' = Reply("POST", 500)
            /\ UNCHANGED <<regServers, lastPost>>
       ELSE /\ regServers' = With(regServers, a, now)
            /\ lastPost' = With(lastPost, a, now)
            /\ regReply' = Reply("POST", 200)
    /\ UNCHANGED <<now, regTimeout>>
    /\ UNCHANGED dvars
    /\ UNCHANGED nonRegistryVars

\* ServeHTTP, case "GET": aliveServers lists and evicts under r.mu
RegGet ==
    /\ \E o \in Orders(DOMAIN regServers) : regReply' = GetReply(o)
    /\ regServers' = Kept(regServers, now)
    /\ UNCHANGED <<now, regTimeout, lastPost>>
    /\ UNCHANGED dvars
    /\ UNCHANGED nonRegistryVars

\* ServeHTTP, default: any other method
RegOther ==
    /\ regReply' = Reply("OTHER", 405)
    /\ UNCHANGED <<now, regTimeout, regServers, lastPost>>
    /\ UNCHANGED dvars
    /\ UNCHANGED nonRegistryVars

(***************************************************************************)
(* The discovery.                                                          *)
(***************************************************************************)
MaxIndex == 1
    \* the values MultiServersDiscovery.index starts from
MaxPicks == 6
    \* calls of MultiServersDiscovery.Get in a row

\* the zero time.Time of a new ZRegistryDiscovery: before every refresh is due
ZeroTime == 0 - defaultUpdateTimeout

\* NewZRegistryDiscovery: timeout 0 stands for defaultUpdateTimeout
DiscTimeout(t) == IF t = 0 THEN defaultUpdateTimeout ELSE t

SelectModes == {"RandomSelect", "RoundRobinSelect", "OtherSelect"}

\* faulty variant: round robin that does not advance the index
MSDGetStuck(servers, index, mode, rnd) ==
    IF servers = <<>>
    THEN [res |-> <<>>, err |-> "NoServers", index |-> index]
    ELSE [res |-> servers[(index % Len(servers)) + 1], err |-> "nil", index |-> index]

\* MultiServersDiscovery.Get(mode), under d.mu; rnd is d.r.Intn(n)
MSDGet(servers, index, mode, rnd) ==
    IF servers = <<>>
    THEN [res |-> <<>>, err |-> "NoServers", index |-> index]
    ELSE IF mode = "RandomSelect"
    THEN [res |-> servers[rnd + 1], err |-> "nil", index |-> index]
    ELSE IF mode = "RoundRobinSelect"
    THEN [res |-> servers[(index % Len(servers)) + 1], err |-> "nil",
          index |-> (index + 1) % Len(servers)]
    ELSE [res |-> <<>>, err |-> "BadMode", index |-> index]

\* the values of d.r.Intn(len(d.servers))
Rnds == IF dServers = <<>> THEN {0} ELSE 0..(Len(dServers) - 1)

Callers == 1..MaxCallers

IdleCall == [pc |-> "idle", kind |-> "", at |-> 0, res |-> <<>>, err |-> "nil"]

\* the lists a user hands to Update
UpdateLists == {<< <<"b">>, <<"a">> >>}

\* nothing was sent to the registry and no Update was made
NoEvent == [e |-> "none", at |-> ZeroTime, ok |-> FALSE, odd |-> FALSE]

\* the event after the last one: a "GET" sent to the registry, which failed
\* or not, or an "Update"
Event(e, ok) == [e |-> e, at |-> now, ok |-> ok, odd |-> ~dlog.odd]

\* ZRegistryDiscovery.Update(servers)
ZUpdate(l) ==
    /\ dServers' = l
    /\ lastUpdate' = now
    /\ dlog' = Event("Update", TRUE)
    /\ UNCHANGED <<dTimeout, dIndex, dcall, picks>>
    /\ UNCHANGED rvars
    /\ UNCHANGED nonRegistryVars

\* faulty variant: Refresh without the test of lastUpdate
RefreshDueAlways == TRUE

\* faulty variant: the list is fetched once and kept
RefreshDueFirst == lastUpdate = ZeroTime

\* Refresh: not d.lastUpdate.Add(d.timeout).After(time.Now())
RefreshDue == ~(lastUpdate + dTimeout > now)

\* faulty variant: Refresh sets lastUpdate also when the GET failed
ZGetRefreshStamps(p, up) ==
    /\ dcall[p].pc \in {"idle", "done"}
    /\ IF ~RefreshDue
       THEN /\ dcall' = [dcall EXCEPT ![p] = [IdleCall EXCEPT !.pc = "pick", !.at = now]]
            /\ UNCHANGED <<dServers, lastUpdate, dlog, regServers, regReply>>
       ELSE IF ~up
       THEN /\ dcall' = [dcall EXCEPT ![p] = [IdleCall EXCEPT !.pc = "done", !.err = "GetErr"]]
            /\ dlog' = Event("GET", FALSE)
            /\ lastUpdate' = now
            /\ UNCHANGED <<dServers, regServers, regReply>>
       ELSE /\ \E o \in Orders(DOMAIN regServers) :
                  /\ regReply' = GetReply(o)
                  /\ dServers' = TrimmedNonEmpty(Split(GetReply(o).header))
            /\ regServers' = Kept(regServers, now)
            /\ lastUpdate' = now
            /\ dlog' = Event("GET", TRUE)
            /\ dcall' = [dcall EXCEPT ![p] = [IdleCall EXCEPT !.pc = "pick", !.at = now]]
    /\ UNCHANGED <<dTimeout, dIndex, picks>>
    /\ UNCHANGED <<now, regTimeout, lastPost>>
    /\ UNCHANGED nonRegistryVars

\* caller p enters Get(mode) or GetAll: d.Refresh(), under d.mu from the test
\* of lastUpdate to its return; up is whether http.Get reaches the registry.
\* The registry answers the GET as in RegGet.
ZGetRefresh(p, up) ==
    /\ dcall[p].pc \in {"idle", "done"}
    /\ IF ~RefreshDue
       THEN /\ dcall' = [dcall EXCEPT ![p] = [IdleCall EXCEPT !.pc = "pick", !.at = now]]
            /\ UNCHANGED <<dServers, lastUpdate, dlog, regServers, regReply>>
       ELSE IF ~up
       THEN /\ dcall' = [dcall EXCEPT ![p] = [IdleCall EXCEPT !.pc = "done", !.err = "GetErr"]]
            /\ dlog' = Event("GET", FALSE)
            /\ UNCHANGED <<dServers, lastUpdate, regServers, regReply>>
       ELSE /\ \E o \in Orders(DOMAIN regServers) :
                  /\ regReply' = GetReply(o)
                  /\ dServers' = TrimmedNonEmpty(Split(GetReply(o).header))
            /\ regServers' = Kept(regServers, now)
            /\ lastUpdate' = now
            /\ dlog' = Event("GET", TRUE)
            /\ dcall' = [dcall EXCEPT ![p] = [IdleCall EXCEPT !.pc = "pick", !.at = now]]
    /\ UNCHANGED <<dTimeout, dIndex, picks>>
    /\ UNCHANGED <<now, regTimeout, lastPost>>
    /\ UNCHANGED nonRegistryVars

\* caller p, after Refresh: d.MultiServersDiscovery.Get(mode), or GetAll()
\* when kind is "GetAll"
ZGetPick(p, kind, rnd) ==
    /\ dcall[p].pc = "pick"
    /\ rnd \in Rnds
    /\ IF kind = "GetAll"
       THEN /\ dcall' = [dcall EXCEPT ![p] =
                          [IdleCall EXCEPT !.pc = "done", !.kind = kind, !.res = dServers]]
            /\ UNCHANGED dIndex
       ELSE /\ dcall' = [dcall EXCEPT ![p] = [IdleCall EXCEPT !.pc = "done", !.kind = kind,
                             !.res = MSDGet(dServers, dIndex, kind, rnd).res,
                             !.err = MSDGet(dServers, dIndex, kind, rnd).err]]
            /\ dIndex' = MSDGet(dServers, dIndex, kind, rnd).index
    /\ UNCHANGED <<dTimeout, dServers, lastUpdate, dlog, picks>>
    /\ UNCHANGED rvars
    /\ UNCHANGED nonRegistryVars

\* a registry made by New(timeout), at time 0
RegistryInit ==
    /\ now = 0
    /\ regTimeout \in 0..MaxTimeout
    /\ regServers = <<>>
    /\ regReply = NoReply
    /\ lastPost = <<>>

\* no discovery is made
DiscoveryIdle ==
    /\ dTimeout = 0
    /\ dServers = <<>>
    /\ dIndex = 0
    /\ lastUpdate = 0
    /\ dcall = <<>>
    /\ dlog = <<>>
    /\ picks = <<>>

\* a discovery made by NewZRegistryDiscovery(registry, timeout)
DiscoveryInit ==
    /\ dTimeout \in {DiscTimeout(t) : t \in 0..MaxTimeout}
    /\ dServers = <<>>
    /\ dIndex \in 0..MaxIndex
    /\ lastUpdate = ZeroTime
    /\ dcall = [p \in Callers |-> IdleCall]
    /\ dlog = NoEvent
    /\ picks = <<>>

\* a registry alone, with the servers that POST and the clients that GET
RegistryAlone == ClientInit /\ ServerIdle /\ RegistryInit /\ DiscoveryIdle /\ dials = <<>>

RegistryNext ==
    \/ Tick
    \/ \E a \in Addrs \cup {<<>>} : RegPost(a)
    \/ RegGet
    \/ RegOther

RegistrySpec == RegistryAlone /\ [][RegistryNext]_vars

\* a registry and a discovery that reads it
DiscoveryAlone == ClientInit /\ ServerIdle /\ RegistryInit /\ DiscoveryInit /\ dials = <<>>

DiscoveryNext ==
    \/ Tick
    \/ \E a \in Addrs : RegPost(a)
    \/ \E l \in UpdateLists : ZUpdate(l)
    \/ \E p \in Callers, up \in BOOLEAN : ZGetRefresh(p, up)
    \/ \E p \in Callers, kind \in SelectModes \cup {"GetAll"}, rnd \in 0..MaxIndex :
          ZGetPick(p, kind, rnd)

DiscoverySpec == DiscoveryAlone /\ [][DiscoveryNext]_vars


(***************************************************************************)
(* A MultiServersDiscovery alone, with a list that does not change.        *)
(***************************************************************************)
MaxStart == 3
    \* the values MultiServersDiscovery.index starts from, when it is alone

\* the lists of the discovery: none, one, two and three distinct addresses
BalanceLists ==
    {<<>>, << <<"b">> >>, << <<"b">>, <<"a">> >>, << <<"a">>, <<"a", "b">>, <<"b">> >>}

\* a MultiServersDiscovery with a list and an index
BalanceInit ==
    /\ dTimeout = 0
    /\ dServers \in BalanceLists
    /\ dIndex \in 0..MaxStart
    /\ lastUpdate = 0
    /\ dcall = <<>>
    /\ dlog = <<>>
    /\ picks = <<>>

\* one call of MultiServersDiscovery.Get(mode), atomic under d.mu
MGet(mode, rnd) ==
    LET g == MSDGet(dServers, dIndex, mode, rnd)
    IN  /\ Len(picks) < MaxPicks
        /\ dIndex' = g.index
        /\ picks' = Append(picks, [mode |-> mode, res |-> g.res, err |-> g.err])
        /\ UNCHANGED <<cvars, svars, rvars, lvars>>
        /\ UNCHANGED <<dTimeout, dServers, lastUpdate, dcall, dlog>>

BalanceAlone == ClientInit /\ ServerIdle /\ RegistryInit /\ BalanceInit /\ dials = <<>>

BalanceNext == \E mode \in SelectModes, rnd \in Rnds : MGet(mode, rnd)

BalanceSpec == BalanceAlone /\ [][BalanceNext]_vars

(***************************************************************************)
(* Properties of the registry and of the discovery.                        *)
(***************************************************************************)
\* the step is a GET answered by the registry
RegGetStep == regReply'.odd # regReply.odd /\ regReply'.method = "GET"

\* the addresses of a list
Listed(l) == {l[i] : i \in 1..Len(l)}

\* C13: a GET lists address A if and only if A was POSTed and the registry
\* timeout is 0 or the last POST of A plus the timeout is after now.
C13_GetListsAlive ==
    RegGetStep =>
        Listed(regReply'.list) =
            {a \in DOMAIN lastPost : regTimeout = 0 \/ lastPost[a] + regTimeout > now}

C13_ListedIffAlive == [][C13_GetListsAlive]_vars

\* with a timeout above 0, a GET has listed one address and left out another
\* that was POSTed and has expired
C13_Witness ==
    /\ regTimeout > 0
    /\ regReply.method = "GET"
    /\ Len(regReply.list) = 1
    /\ Cardinality(DOMAIN lastPost) = 2

\* C14: the list of a GET is strictly ascending in the order of the strings,
\* the header is the list joined by commas, and after the GET the map of the
\* registry holds the listed addresses and no other.
C14_GetSortsAndEvicts ==
    RegGetStep =>
        /\ \A i \in 1..(Len(regReply'.list) - 1) :
              Less(regReply'.list[i], regReply'.list[i + 1])
        /\ regReply'.header = Join(regReply'.list)
        /\ DOMAIN regServers' = Listed(regReply'.list)

C14_ListSortedMapExact == [][C14_GetSortsAndEvicts]_vars

\* a GET has listed two addresses
C14_Witness == regReply.method = "GET" /\ Len(regReply.list) = 2

\* the step sends a GET to the registry, or is an Update
SentGet == dlog'.odd # dlog.odd /\ dlog'.e = "GET"
Updated == dlog'.odd # dlog.odd /\ dlog'.e = "Update"

\* the step is the Refresh of a call of Get or GetAll
Refreshed == \E p \in Callers : dcall[p].pc # "pick" /\ dcall'[p].pc # dcall[p].pc

\* Refresh is a no-op while lastUpdate + timeout is after now, and Update
\* sets lastUpdate to now
C15_NoOpAndUpdate ==
    /\ (Refreshed /\ lastUpdate + dTimeout > now)
          => /\ ~SentGet
             /\ UNCHANGED <<dServers, lastUpdate, regServers, regReply>>
    /\ Updated => lastUpdate' = now

RECURSIVE RoundRobinResults(_)
RoundRobinResults(s) ==
    IF s = <<>> THEN <<>>
    ELSE IF Head(s).mode = "RoundRobinSelect"
    THEN <<Head(s).res>> \o RoundRobinResults(Tail(s))
    ELSE RoundRobinResults(Tail(s))

\* the place of address a in the list
Place(a) == CHOOSE i \in 1..Len(dServers) : dServers[i] = a

\* how many of the results s[from..to] are address a
Times(s, from, to, a) == Cardinality({i \in from..to : s[i] = a})

\* every k*n consecutive round-robin results hold each address k times, and
\* each result is followed by the next address of the list
C16_Fair ==
    LET s == RoundRobinResults(picks)
        n == Len(dServers)
    IN  n > 0 =>
        /\ \A i \in 1..(Len(s) - 1) : Place(s[i + 1]) = (Place(s[i]) % n) + 1
        /\ \A from \in 1..Len(s), k \in 1..MaxPicks :
              from + k * n - 1 <= Len(s) =>
                  \A j \in 1..n : Times(s, from, from + k * n - 1, dServers[j]) = k

\* a call of Get(RoundRobinSelect) returns servers[index % n] and sets the
\* index to (index + 1) % n
C16_Step ==
    (Len(picks') > Len(picks) /\ dServers # <<>>
        /\ picks'[Len(picks')].mode = "RoundRobinSelect")
    => /\ picks'[Len(picks')].res = dServers[(dIndex % Len(dServers)) + 1]
       /\ picks'[Len(picks')].err = "nil"
       /\ dIndex' = (dIndex + 1) % Len(dServers)

\* C16: with an unchanged list of n > 0 addresses, any k*n consecutive calls of
\* Get(RoundRobinSelect), from any starting index and in any interleaving with
\* other calls, return each address exactly k times in the rotation order.
C16_RoundRobinFair == []C16_Fair /\ [][C16_Step]_vars

\* six round-robin calls on three addresses, the first of which returned the
\* last address of the list
C16_Witness ==
    /\ Len(dServers) = 3
    /\ Len(RoundRobinResults(picks)) = 2 * Len(dServers)
    /\ picks[1].res = dServers[3]


(***************************************************************************)
(* dialTimeout.                                                            *)
(***************************************************************************)
MaxDials == 2
    \* calls of dialTimeout

Dialers == 1..MaxDials

\* the options handed to dialTimeout: how many, and the fields of the first
DialOptions == [n : 0..2, ConnectTimeout : {0, 1}, CodecType : {"", GobType, JsonType}]

\* parseOptions: no option stands for DefaultOption, an empty CodecType for
\* the one of DefaultOption
ParsedOption(o) ==
    IF o.n = 0 THEN [ConnectTimeout |-> 10, CodecType |-> GobType]
    ELSE [ConnectTimeout |-> o.ConnectTimeout,
          CodecType |-> IF o.CodecType = "" THEN GobType ELSE o.CodecType]

IdleDial ==
    [pc |-> "idle", timer |-> FALSE, codec |-> "", conn |-> "none", fpc |-> "none",
     fres |-> "none", client |-> FALSE, err |-> "nil", via |-> "none"]

\* faulty variant: the deferred function closes nothing
DeferredCloseNever(err, c) == c

\* the deferred function of dialTimeout: close the connection if err # nil
DeferredClose(err, c) == IF err # "nil" THEN "closed" ELSE c

\* dialTimeout up to parseOptions
DialParse(d, o) ==
    /\ dials[d].pc = "idle"
    /\ dials' = [dials EXCEPT ![d] =
          IF o.n > 1
          THEN [@ EXCEPT !.pc = "returned", !.err = "TooManyOptions"]
          ELSE [@ EXCEPT !.pc = "dial",
                         !.timer = ParsedOption(o).ConnectTimeout # 0,
                         !.codec = ParsedOption(o).CodecType]]
    /\ UNCHANGED nonDialVars

\* net.DialTimeout, and the start of the goroutine that runs f(conn, opt)
NetDial(d, ok) ==
    /\ dials[d].pc = "dial"
    /\ dials' = [dials EXCEPT ![d] =
          IF ok
          THEN [@ EXCEPT !.pc = "wait", !.conn = "open", !.fpc = "run"]
          ELSE [@ EXCEPT !.pc = "returned", !.err = "DialErr"]]
    /\ UNCHANGED nonDialVars

\* NewClient in the goroutine; enc tells whether the option was encoded
NewClientRun(d, enc) ==
    /\ dials[d].fpc = "run"
    /\ dials' = [dials EXCEPT ![d] =
          IF dials[d].codec \notin NewCodecFuncMap
          THEN [@ EXCEPT !.fpc = "send", !.fres = "fail"]
          ELSE IF ~enc
          THEN [@ EXCEPT !.fpc = "send", !.fres = "fail", !.conn = "closed"]
          ELSE [@ EXCEPT !.fpc = "send", !.fres = "ok"]]
    /\ UNCHANGED nonDialVars

\* dialTimeout receives the result from ch and returns it
DialResult(d) ==
    /\ dials[d].pc = "wait"
    /\ dials[d].fpc = "send"
    /\ LET err == IF dials[d].fres = "ok" THEN "nil" ELSE "NewClientErr"
       IN  dials' = [dials EXCEPT ![d] =
              [@ EXCEPT !.pc = "returned", !.fpc = "sent", !.via = "result",
                        !.client = (dials[d].fres = "ok"), !.err = err,
                        !.conn = DeferredClose(err, dials[d].conn)]]
    /\ UNCHANGED nonDialVars

\* time.After(opt.ConnectTimeout) fires first
DialTimer(d) ==
    /\ dials[d].pc = "wait"
    /\ dials[d].timer
    /\ dials' = [dials EXCEPT ![d] =
          [@ EXCEPT !.pc = "returned", !.via = "timer", !.client = FALSE,
                    !.err = "ConnectTimeout",
                    !.conn = DeferredClose("ConnectTimeout", dials[d].conn)]]
    /\ UNCHANGED nonDialVars

DialAlone ==
    /\ ClientInit /\ ServerIdle /\ RegistryInit /\ DiscoveryIdle
    /\ dials = [d \in Dialers |-> IdleDial]

DialNext ==
    \E d \in Dialers :
        \/ \E o \in DialOptions : DialParse(d, o)
        \/ \E ok \in BOOLEAN : NetDial(d, ok)
        \/ \E enc \in BOOLEAN : NewClientRun(d, enc)
        \/ DialResult(d)
        \/ DialTimer(d)

DialSpec == DialAlone /\ [][DialNext]_vars

\* C17: dialTimeout returns a client or an error and never both; when the
\* constructor fails, or the timer fires before the result is delivered, it
\* returns an error (the timeout error in the second case) and no client, and
\* the connection is closed; when it returns a client the connection is open.
C17_ClientXorError ==
    \A d \in Dialers :
        dials[d].pc = "returned" =>
            /\ dials[d].client <=> dials[d].err = "nil"
            /\ dials[d].via = "timer" => dials[d].err = "ConnectTimeout"
            /\ (dials[d].via = "result" /\ dials[d].fres = "fail")
                  => dials[d].err = "NewClientErr"
            /\ (dials[d].conn # "none" /\ dials[d].err # "nil") => dials[d].conn = "closed"
            /\ dials[d].client => dials[d].conn = "open"

\* one dial has timed out while its constructor was still running, and another
\* has returned the error of a constructor that left the connection to it
C17_Witness ==
    \E d, e \in Dialers :
        /\ dials[d].pc = "returned" /\ dials[d].via = "timer" /\ dials[d].fpc = "run"
        /\ dials[e].pc = "returned" /\ dials[e].via = "result"
        /\ dials[e].codec = JsonType


(***************************************************************************)
(* Two servers, the registry and a discovery: the registry stays           *)
(* reachable, S2 keeps its entry alive and nobody calls Update.            *)
(***************************************************************************)
S1 == <<"a">>
S2 == <<"a", "b">>

\* both servers have sent their first heartbeat at time 0
FailoverRegistryInit ==
    /\ now = 0
    /\ regTimeout \in 0..MaxTimeout
    /\ regServers = [a \in {S1, S2} |-> 0]
    /\ regReply = NoReply
    /\ lastPost = [a \in {S1, S2} |-> 0]

\* time passes, but never so far that the entry of S2 expires
KeepTick ==
    /\ regTimeout = 0 \/ lastPost[S2] + regTimeout > now + 1
    /\ Tick

FailoverAlone ==
    ClientInit /\ ServerIdle /\ FailoverRegistryInit /\ DiscoveryInit /\ dials = <<>>

FailoverNext ==
    \/ KeepTick
    \/ \E a \in {S1, S2} : RegPost(a)
    \/ \E p \in Callers : ZGetRefresh(p, TRUE)
    \/ \E p \in Callers, kind \in SelectModes \cup {"GetAll"}, rnd \in 0..MaxIndex :
          ZGetPick(p, kind, rnd)

FailoverSpec == FailoverAlone /\ [][FailoverNext]_vars

\* caller p returns from a Get or GetAll whose Refresh ran at or after the last
\* heartbeat of S1 plus the registry timeout plus the refresh interval
LateReturn(p) ==
    /\ dcall[p].pc = "pick"
    /\ dcall'[p].pc = "done"
    /\ dcall'[p].kind # "OtherSelect"
    /\ dcall[p].at >= lastPost[S1] + regTimeout + dTimeout

\* the call returned S2, or the list that holds S2 alone
ReturnedS2(c) ==
    /\ c.err = "nil"
    /\ IF c.kind = "GetAll" THEN c.res = <<S2>> ELSE c.res = S2

C22_FailedGetStep ==
    /\ (SentGet /\ ~dlog'.ok)
          => /\ \E p \in Callers :
                   /\ dcall[p].pc # "pick"
                   /\ dcall'[p].pc = "done"
                   /\ dcall'[p].err = "GetErr"
                   /\ dcall'[p].res = <<>>
             /\ UNCHANGED <<dServers, dIndex, lastUpdate>>
    /\ (Refreshed /\ dlog.e = "GET" /\ ~dlog.ok) => SentGet

C22_RefreshFailureKeepsState == [][C22_FailedGetStep]_vars

\* a GET has failed twice in a row while the discovery held a list
C22_Witness ==
    /\ dlog.e = "GET" /\ ~dlog.ok /\ ~dlog.odd
    /\ dServers # <<>>
    /\ \E p \in Callers : dcall[p].pc = "done" /\ dcall[p].err = "GetErr"

=============================================================================
